---- MODULE Spec2Model ----
(***************************************************************************)
(* Break Timer (src/src/App.tsx): an ordered collection of countdown       *)
(* timers held in React state, advanced by a periodic tick, loaded from    *)
(* localStorage at mount and written back by a persist effect after every  *)
(* change of the collection.                                               *)
(*                                                                         *)
(* Time is in milliseconds.  Date.now() is the wall clock of the host: it  *)
(* is read through the variable now, which the environment moves forward   *)
(* and, a bounded number of times, backward (a clock adjustment).          *)
(***************************************************************************)
EXTENDS Integers, Sequences, FiniteSets, TLC

(* ------------------------------ bounds --------------------------------- *)
MaxTimers == 2          \* largest collection AddTimer builds
MaxSetBacks == 1        \* backward adjustments of the wall clock
MaxFailedWrites == 1    \* localStorage.setItem calls that throw

(* instants the wall clock can show *)
Instants == {0, 30000, 60000}

(* form inputs: the name field as a sequence of characters, the minutes field *)
NameInputs == {<<>>, <<" ">>, <<"a">>, <<" ", "a", " ">>}
DurationInputs == {-1, 0, 1}

IdSource == 1..MaxTimers

(* ------------------------------ state ---------------------------------- *)
VARIABLES
    timers,        \* useState<Timer[]>
    lastTickRef,   \* useRef(Date.now()).current
    hydrated,      \* useState(false)
    storage,       \* localStorage item under STORAGE_KEY
    now,           \* what Date.now() returns
    pc,            \* "mount": load effect not yet run; "ready": afterwards
    storageFull,   \* localStorage.setItem throws (quota exceeded)
    lastOp,        \* history: the last operation of the component
    lastArg,       \* history: the inputs of the last operation
    setBacks,      \* history: backward clock adjustments so far
    failedWrites   \* history: writes that failed so far

vars == <<timers, lastTickRef, hydrated, storage, now, pc, storageFull, lastOp,
          lastArg, setBacks, failedWrites>>

(* ------------------------------ helpers -------------------------------- *)
Max(a, b) == IF a >= b THEN a ELSE b

MapSeq(s, F(_)) == [i \in 1..Len(s) |-> F(s[i])]

FilterSeq(s, P(_)) == SelectSeq(s, P)

(* String.prototype.trim on a sequence of characters *)
RECURSIVE TrimStart(_)
TrimStart(s) ==
    IF s # <<>> /\ Head(s) = " " THEN TrimStart(Tail(s)) ELSE s

RECURSIVE TrimEnd(_)
TrimEnd(s) ==
    IF s # <<>> /\ s[Len(s)] = " " THEN TrimEnd(SubSeq(s, 1, Len(s) - 1)) ELSE s

(* variant: the name is used as typed *)
TrimNothing(s) == s

Trim(s) == TrimEnd(TrimStart(s))

(* ----------------------- persisted representation ---------------------- *)
(* JSON.stringify writes the fields of a Timer in insertion order; the     *)
(* stored text is modelled as the tuple of the field values.               *)
StringifyTimer(t) ==
    <<t.id, t.name, t.durationMs, t.remainingMs, t.isRunning, t.isSelected>>

ParseTimer(e) ==
    [id |-> e[1], name |-> e[2], durationMs |-> e[3], remainingMs |-> e[4],
     isRunning |-> e[5], isSelected |-> e[6]]

Stringify(payload) ==
    [raw |-> "json",
     timers |-> MapSeq(payload.timers, StringifyTimer),
     lastUpdatedMs |-> payload.lastUpdatedMs]

Parse(item) ==
    [timers |-> MapSeq(item.timers, ParseTimer),
     lastUpdatedMs |-> item.lastUpdatedMs]

NoItem == [raw |-> "null", timers |-> <<>>, lastUpdatedMs |-> 0]
CorruptItem == [raw |-> "corrupt", timers |-> <<>>, lastUpdatedMs |-> 0]

(* --------------------------- load effect -------------------------------- *)
(* variant: the load restores every timer it adjusts as paused *)
ReconcileTimerPausing(timer, elapsed) ==
    IF ~timer.isRunning \/ timer.remainingMs <= 0
    THEN timer
    ELSE LET remainingMs == Max(0, timer.remainingMs - elapsed)
         IN  [timer EXCEPT !.remainingMs = remainingMs,
                           !.isRunning = FALSE]

ReconcileTimer(timer, elapsed) ==
    IF ~timer.isRunning \/ timer.remainingMs <= 0
    THEN timer
    ELSE LET remainingMs == Max(0, timer.remainingMs - elapsed)
         IN  [timer EXCEPT !.remainingMs = remainingMs,
                           !.isRunning = remainingMs > 0]

Elapsed(instant, lastUpdatedMs) == Max(0, instant - lastUpdatedMs)

Adjusted(parsed, instant) ==
    MapSeq(parsed.timers,
           LAMBDA timer : ReconcileTimer(timer, Elapsed(instant, parsed.lastUpdatedMs)))

(* --------------------------- persist effect ----------------------------- *)
Payload(ts, instant) == [timers |-> ts, lastUpdatedMs |-> instant]

(* a persist effect that stops writing after the first failed write *)
PersistEffectGivingUp(ts, hyd) ==
    IF ~hyd \/ failedWrites > 0
    THEN UNCHANGED <<storage, failedWrites>>
    ELSE IF storageFull
    THEN /\ failedWrites < MaxFailedWrites
         /\ failedWrites' = failedWrites + 1
         /\ UNCHANGED storage
    ELSE /\ storage' = Stringify(Payload(ts, now))
         /\ UNCHANGED failedWrites

(* a persist effect without the hydration gate *)
PersistEffectUngated(ts, hyd) ==
    IF storageFull
    THEN /\ failedWrites < MaxFailedWrites
         /\ failedWrites' = failedWrites + 1
         /\ UNCHANGED storage
    ELSE /\ storage' = Stringify(Payload(ts, now))
         /\ UNCHANGED failedWrites

(* runs after a render in which timers or hydrated changed *)
PersistEffect(ts, hyd) ==
    IF ~hyd
    THEN UNCHANGED <<storage, failedWrites>>
    ELSE IF storageFull
    THEN \* setItem throws, the catch logs
         /\ failedWrites < MaxFailedWrites
         /\ failedWrites' = failedWrites + 1
         /\ UNCHANGED storage
    ELSE /\ storage' = Stringify(Payload(ts, now))
         /\ UNCHANGED failedWrites

(* ------------------------------ tick ------------------------------------ *)
(* variant: the tick forgets the isRunning test *)
TickTimerEveryTimer(timer, delta) ==
    IF timer.remainingMs <= 0
    THEN [timer EXCEPT !.remainingMs = 0, !.isRunning = FALSE]
    ELSE LET remainingMs == Max(0, timer.remainingMs - delta)
         IN  [timer EXCEPT !.remainingMs = remainingMs,
                           !.isRunning = timer.isRunning /\ remainingMs > 0]

(* variant: the tick does not subtract the elapsed time *)
TickTimerFrozen(timer, delta) ==
    IF ~timer.isRunning \/ timer.remainingMs <= 0
    THEN IF timer.remainingMs <= 0 /\ timer.isRunning
         THEN [timer EXCEPT !.remainingMs = 0, !.isRunning = FALSE]
         ELSE timer
    ELSE timer

(* variant: the tick forgets to clamp at zero *)
TickTimerUnclamped(timer, delta) ==
    IF ~timer.isRunning \/ timer.remainingMs <= 0
    THEN IF timer.remainingMs <= 0 /\ timer.isRunning
         THEN [timer EXCEPT !.remainingMs = 0, !.isRunning = FALSE]
         ELSE timer
    ELSE LET remainingMs == timer.remainingMs - delta
         IN  [timer EXCEPT !.remainingMs = remainingMs,
                           !.isRunning = remainingMs > 0]

TickTimer(timer, delta) ==
    IF ~timer.isRunning \/ timer.remainingMs <= 0
    THEN IF timer.remainingMs <= 0 /\ timer.isRunning
         THEN [timer EXCEPT !.remainingMs = 0, !.isRunning = FALSE]
         ELSE timer
    ELSE LET remainingMs == Max(0, timer.remainingMs - delta)
         IN  [timer EXCEPT !.remainingMs = remainingMs,
                           !.isRunning = remainingMs > 0]

(* --------------------------- initial state ------------------------------ *)
StoredTimer(i, rem, run, sel) ==
    [id |-> i, name |-> <<"a">>, durationMs |-> 60000, remainingMs |-> rem,
     isRunning |-> run, isSelected |-> sel]

(* items found under STORAGE_KEY when the page is first opened *)
InitialItems ==
    {NoItem, CorruptItem,
     Stringify(Payload(<<StoredTimer(1, 30000, TRUE, FALSE),
                         StoredTimer(2, 0, TRUE, TRUE)>>, 0))}

Init ==
    /\ timers = <<>>
    /\ hydrated = FALSE
    /\ storage \in InitialItems
    /\ now = 0
    /\ lastTickRef = now
    /\ pc = "mount"
    /\ storageFull = FALSE
    /\ lastOp = "mount"
    /\ lastArg = <<>>
    /\ setBacks = 0
    /\ failedWrites = 0

(* ------------------------------ actions --------------------------------- *)
(* the wall clock moves forward *)
ClockAdvance ==
    /\ \E n \in Instants : n > now /\ now' = n
    /\ UNCHANGED <<timers, lastTickRef, hydrated, storage, pc, storageFull, lastOp,
                   lastArg, setBacks, failedWrites>>

(* the wall clock is set back *)
ClockSetBack ==
    /\ setBacks < MaxSetBacks
    /\ \E n \in Instants : n < now /\ now' = n
    /\ setBacks' = setBacks + 1
    /\ UNCHANGED <<timers, lastTickRef, hydrated, storage, pc, storageFull, lastOp,
                   lastArg, failedWrites>>

(* the storage quota is reached, or space is freed again *)
QuotaChange ==
    /\ storageFull' = ~storageFull
    /\ UNCHANGED <<timers, lastTickRef, hydrated, storage, now, pc, lastOp, lastArg,
                   setBacks, failedWrites>>

(* the load effect, run once after the first render *)
Load ==
    /\ pc = "mount"
    /\ pc' = "ready"
    /\ lastOp' = "load"
    /\ lastArg' = <<>>
    /\ UNCHANGED <<now, storageFull, setBacks>>
    /\ IF storage.raw = "null"
       THEN \* if (!raw) return;
            UNCHANGED <<timers, lastTickRef, hydrated, storage, failedWrites>>
       ELSE IF storage.raw = "corrupt"
       THEN \* JSON.parse throws, the catch logs, setHydrated(true)
            /\ hydrated' = TRUE
            /\ UNCHANGED <<timers, lastTickRef>>
            /\ PersistEffect(timers, TRUE)
       ELSE /\ timers' = Adjusted(Parse(storage), now)
            /\ lastTickRef' = now
            /\ hydrated' = TRUE
            /\ PersistEffect(timers', TRUE)

(* the page is closed and opened again: the component is constructed anew *)
Reopen ==
    /\ pc = "ready"
    /\ pc' = "mount"
    /\ timers' = <<>>
    /\ hydrated' = FALSE
    /\ lastTickRef' = now
    /\ lastOp' = "mount"
    /\ lastArg' = <<>>
    /\ UNCHANGED <<storage, now, storageFull, setBacks, failedWrites>>

(* setTimers(updater) from a handler, followed by the persist effect *)
SetTimers(ts, op) ==
    /\ timers' = ts
    /\ lastOp' = op
    /\ PersistEffect(ts, hydrated)
    /\ UNCHANGED <<hydrated, now, pc, storageFull, setBacks>>

Tick ==
    /\ pc = "ready"
    /\ LET delta == now - lastTickRef
       IN  SetTimers(MapSeq(timers, LAMBDA timer : TickTimer(timer, delta)), "tick")
    /\ lastTickRef' = now
    /\ lastArg' = <<>>

(* addTimer: the name and minutes fields are the handler's inputs *)
(* variant: the minutes are used as typed, without the minimum of one *)
NewTimerNoMinimum(newId, cleanName, durationMinutes) ==
    LET durationMs == durationMinutes * 60 * 1000
    IN  [id |-> newId, name |-> cleanName, durationMs |-> durationMs,
         remainingMs |-> durationMs, isRunning |-> FALSE, isSelected |-> FALSE]

NewTimer(newId, cleanName, durationMinutes) ==
    LET durationMs == Max(1, durationMinutes) * 60 * 1000
    IN  [id |-> newId, name |-> cleanName, durationMs |-> durationMs,
         remainingMs |-> durationMs, isRunning |-> FALSE, isSelected |-> FALSE]

Ids(ts) == {ts[i].id : i \in 1..Len(ts)}

(* crypto.randomUUID(): an id no timer of the collection has *)
RandomUUID(ts) ==
    CHOOSE newId \in IdSource \ Ids(ts) : \A other \in IdSource \ Ids(ts) : newId <= other

AddTimer(nameInput, durationMinutes) ==
    /\ pc = "ready"
    /\ Len(timers) < MaxTimers
    /\ LET cleanName == Trim(nameInput)
       IN  IF cleanName = <<>>
           THEN \* if (!cleanName) return;
                /\ lastOp' = "add"
                /\ UNCHANGED <<timers, hydrated, storage, now, pc, storageFull,
                               setBacks, failedWrites>>
           ELSE SetTimers(Append(timers, NewTimer(RandomUUID(timers), cleanName,
                                                  durationMinutes)),
                          "add")
    /\ lastArg' = <<nameInput, durationMinutes>>
    /\ UNCHANGED lastTickRef

ToggleSelectTimer(timer, id) ==
    IF timer.id = id THEN [timer EXCEPT !.isSelected = ~timer.isSelected] ELSE timer

toggleSelect(id) ==
    /\ pc = "ready"
    /\ id \in Ids(timers)
    /\ SetTimers(MapSeq(timers, LAMBDA timer : ToggleSelectTimer(timer, id)),
                 "toggleSelect")
    /\ lastArg' = <<id>>
    /\ UNCHANGED lastTickRef

(* variant: the filter keeps the matching timer instead of dropping it *)
RemoveByIdInverted(ts, id) == FilterSeq(ts, LAMBDA timer : timer.id = id)

RemoveById(ts, id) == FilterSeq(ts, LAMBDA timer : timer.id # id)

removeTimer(id) ==
    /\ pc = "ready"
    /\ SetTimers(RemoveById(timers, id), "removeTimer")
    /\ lastArg' = <<id>>
    /\ UNCHANGED lastTickRef

hasSelection == \E i \in 1..Len(timers) : timers[i].isSelected

RemoveSelectedTimers(ts) == FilterSeq(ts, LAMBDA timer : ~timer.isSelected)

removeSelected ==
    /\ pc = "ready"
    /\ hasSelection
    /\ SetTimers(RemoveSelectedTimers(timers), "removeSelected")
    /\ lastArg' = <<>>
    /\ UNCHANGED lastTickRef

StartSelectedTimer(timer) ==
    IF timer.isSelected /\ timer.remainingMs > 0
    THEN [timer EXCEPT !.isRunning = TRUE] ELSE timer

startSelected ==
    /\ pc = "ready"
    /\ hasSelection
    /\ lastTickRef' = now
    /\ SetTimers(MapSeq(timers, StartSelectedTimer), "startSelected")
    /\ lastArg' = <<>>

(* variant: start all forgets the remainingMs test *)
StartAllTimerUnguarded(timer) == [timer EXCEPT !.isRunning = TRUE]

StartAllTimer(timer) ==
    IF timer.remainingMs > 0 THEN [timer EXCEPT !.isRunning = TRUE] ELSE timer

startAll ==
    /\ pc = "ready"
    /\ Len(timers) # 0
    /\ lastTickRef' = now
    /\ SetTimers(MapSeq(timers, StartAllTimer), "startAll")
    /\ lastArg' = <<>>

(* variant: pause selected forgets the isSelected test *)
PauseSelectedTimerEvery(timer) == [timer EXCEPT !.isRunning = FALSE]

PauseSelectedTimer(timer) ==
    IF timer.isSelected THEN [timer EXCEPT !.isRunning = FALSE] ELSE timer

pauseSelected ==
    /\ pc = "ready"
    /\ hasSelection
    /\ SetTimers(MapSeq(timers, PauseSelectedTimer), "pauseSelected")
    /\ lastArg' = <<>>
    /\ UNCHANGED lastTickRef

PauseAllTimer(timer) == [timer EXCEPT !.isRunning = FALSE]

pauseAll ==
    /\ pc = "ready"
    /\ Len(timers) # 0
    /\ SetTimers(MapSeq(timers, PauseAllTimer), "pauseAll")
    /\ lastArg' = <<>>
    /\ UNCHANGED lastTickRef

(* variant: reset selected restores the time but leaves the timer running *)
ResetSelectedTimerRunning(timer) ==
    IF timer.isSelected
    THEN [timer EXCEPT !.remainingMs = timer.durationMs]
    ELSE timer

ResetSelectedTimer(timer) ==
    IF timer.isSelected
    THEN [timer EXCEPT !.remainingMs = timer.durationMs, !.isRunning = FALSE]
    ELSE timer

resetSelected ==
    /\ pc = "ready"
    /\ hasSelection
    /\ SetTimers(MapSeq(timers, ResetSelectedTimer), "resetSelected")
    /\ lastArg' = <<>>
    /\ UNCHANGED lastTickRef

(* the start/pause button of one card; disabled while remainingMs <= 0 *)
ToggleRunTimer(timer, id) ==
    IF timer.id = id THEN [timer EXCEPT !.isRunning = ~timer.isRunning] ELSE timer

TimerById(ts, id) == ts[CHOOSE i \in 1..Len(ts) : ts[i].id = id]

StartPauseButton(id) ==
    /\ pc = "ready"
    /\ id \in Ids(timers)
    /\ ~(TimerById(timers, id).remainingMs <= 0)
    /\ SetTimers(MapSeq(timers, LAMBDA timer : ToggleRunTimer(timer, id)),
                 IF TimerById(timers, id).isRunning THEN "pauseOne" ELSE "startOne")
    /\ lastArg' = <<id>>
    /\ UNCHANGED lastTickRef

Next ==
    \/ ClockAdvance
    \/ Load
    \/ Reopen
    \/ Tick
    \/ \E nameInput \in NameInputs, durationMinutes \in DurationInputs :
           AddTimer(nameInput, durationMinutes)
    \/ \E id \in IdSource : toggleSelect(id)
    \/ \E id \in IdSource : removeTimer(id)
    \/ removeSelected
    \/ startSelected
    \/ startAll
    \/ pauseSelected
    \/ pauseAll
    \/ resetSelected
    \/ \E id \in IdSource : StartPauseButton(id)

Spec == Init /\ [][Next]_vars

(* the same component on a host whose clock can be set back *)
NextClock == Next \/ ClockSetBack

SpecClock == Init /\ [][NextClock]_vars

(* the component on a host whose storage can run full, driven by the tick, *)
(* add entry, remove and the start all / pause all buttons                 *)
NextQuota ==
    \/ QuotaChange
    \/ ClockAdvance
    \/ Load
    \/ Reopen
    \/ Tick
    \/ \E nameInput \in NameInputs, durationMinutes \in DurationInputs :
           AddTimer(nameInput, durationMinutes)
    \/ \E id \in IdSource : removeTimer(id)
    \/ startAll
    \/ pauseAll

SpecQuota == Init /\ [][NextQuota]_vars

(* The clock passes the last instant of Instants. The code reads Date.now() *)
(* only in the differences now - lastTickRef (tick) and                     *)
(* now - lastUpdatedMs (load), and a difference of the largest instant or   *)
(* more acts like the largest instant, because no remainingMs exceeds it    *)
(* while the clock only advances. So the passing of d milliseconds at the   *)
(* last instant is kept as now unchanged with both stamps moved d earlier,  *)
(* not below the first instant.                                             *)
ClockWindowShift ==
    /\ \A n \in Instants : n <= now
    /\ \E d \in Instants :
         /\ d > 0
         /\ lastTickRef' = Max(0, lastTickRef - d)
         /\ storage' = [storage EXCEPT !.lastUpdatedMs = Max(0, @ - d)]
    /\ UNCHANGED <<timers, hydrated, now, pc, storageFull, lastOp, lastArg,
                   setBacks, failedWrites>>

(* the interval callback fires and reads an instant later than the baseline *)
TickLater == Tick /\ now > lastTickRef

(* the component opened on what storage holds, with a clock that never     *)
(* stops: the timers are selected, started, paused, reset and removed, and *)
(* the page is reloaded; no entry is added                                 *)
NextLive ==
    \/ ClockAdvance
    \/ ClockWindowShift
    \/ Load
    \/ Reopen
    \/ Tick
    \/ \E id \in IdSource : toggleSelect(id)
    \/ \E id \in IdSource : removeTimer(id)
    \/ removeSelected
    \/ startSelected
    \/ startAll
    \/ pauseSelected
    \/ pauseAll
    \/ resetSelected
    \/ \E id \in IdSource : StartPauseButton(id)

(* time passes, and the interval keeps firing with the clock read later    *)
(* than the baseline (setInterval of 1000 ms while the component is        *)
(* mounted)                                                                *)
SpecLive ==
    /\ Init
    /\ [][NextLive]_vars
    /\ WF_vars(ClockAdvance \/ ClockWindowShift)
    /\ SF_vars(TickLater)

(* ======================================================================= *)
(* Properties                                                              *)
(* ======================================================================= *)
StartOps == {"startOne", "startSelected", "startAll"}

(* a step of the component, as opposed to a step of the clock or the quota *)
OpStep == now' = now /\ storageFull' = storageFull

SameLength == Len(timers') = Len(timers)

(* C1: once the load effect has run, every change of the timer collection  *)
(* writes the full collection with the current instant as lastUpdatedMs.   *)
C1_EveryChangeIsWritten ==
    [][(pc = "ready" /\ pc' = "ready" /\ timers' # timers)
          => storage' = Stringify(Payload(timers', now'))]_vars

(* C2: 0 <= remainingMs <= durationMs for every timer in every state.      *)
C2_RemainingInRange ==
    \A i \in 1..Len(timers) :
        /\ 0 <= timers[i].remainingMs
        /\ timers[i].remainingMs <= timers[i].durationMs

(* C3: right after a tick and right after the load, a timer with           *)
(* remainingMs = 0 is not running.                                         *)
C3_ZeroIsPaused ==
    lastOp \in {"tick", "load"} =>
        \A i \in 1..Len(timers) : timers[i].remainingMs = 0 => ~timers[i].isRunning

(* C4: every kind of start sets the tick baseline to the instant of the    *)
(* start.                                                                  *)
C4_StartSetsBaseline ==
    [][(OpStep /\ lastOp' \in StartOps) => lastTickRef' = now']_vars

(* C5: the load restores a timer flagged running with remainingMs = r from *)
(* a snapshot written e >= 0 earlier with remainingMs = max(0, r - e) and  *)
(* isRunning = (r - e > 0), and a timer not flagged running unchanged.     *)
Restored(stored, e) ==
    IF stored[5]
    THEN [id |-> stored[1], name |-> stored[2], durationMs |-> stored[3],
          remainingMs |-> Max(0, stored[4] - e), isRunning |-> (stored[4] - e > 0),
          isSelected |-> stored[6]]
    ELSE [id |-> stored[1], name |-> stored[2], durationMs |-> stored[3],
          remainingMs |-> stored[4], isRunning |-> FALSE, isSelected |-> stored[6]]

C5_LoadReconciles ==
    [][(pc = "mount" /\ pc' = "ready" /\ storage.raw = "json"
            /\ now >= storage.lastUpdatedMs)
          => /\ Len(timers') = Len(storage.timers)
             /\ \A i \in 1..Len(storage.timers) :
                    timers'[i] = Restored(storage.timers[i], now - storage.lastUpdatedMs)]_vars

(* C6: writing a collection and loading the written item at the instant of *)
(* the write gives back the collection, field by field and in order.       *)
RoundTrip(ts, instant) ==
    Adjusted(Parse(Stringify(Payload(ts, instant))), instant) = ts

C6_RoundTrip ==
    [][/\ RoundTrip(timers', now')
       /\ (pc = "mount" /\ pc' = "ready" /\ storage.raw = "json"
              /\ now <= storage.lastUpdatedMs)
            => /\ Len(timers') = Len(storage.timers)
               /\ \A i \in 1..Len(storage.timers) :
                      StringifyTimer(timers'[i]) = storage.timers[i]]_vars

(* a load at instant 0 (no time elapsed) of a collection the component     *)
(* wrote earlier: a running timer with its full minute                     *)
C6_Witness ==
    /\ lastOp = "load"
    /\ now = 0
    /\ \E i \in 1..Len(timers) : timers[i].isRunning /\ timers[i].remainingMs = 60000

(* C7: no start moves a paused timer at zero to running; start all starts  *)
(* exactly the timers with remainingMs > 0, start selected exactly the     *)
(* selected ones with remainingMs > 0, the button of a card exactly its    *)
(* timer; every other timer stays as it was.                               *)
C7_StartNeedsRemaining ==
    [][OpStep =>
        /\ lastOp' \in StartOps =>
              /\ SameLength
              /\ \A i \in 1..Len(timers) :
                    (timers[i].remainingMs = 0 /\ ~timers[i].isRunning)
                        => timers'[i] = timers[i]
        /\ lastOp' = "startAll" =>
              \A i \in 1..Len(timers) :
                  timers'[i] = IF timers[i].remainingMs > 0
                               THEN [timers[i] EXCEPT !.isRunning = TRUE]
                               ELSE timers[i]
        /\ lastOp' = "startSelected" =>
              \A i \in 1..Len(timers) :
                  timers'[i] = IF timers[i].isSelected /\ timers[i].remainingMs > 0
                               THEN [timers[i] EXCEPT !.isRunning = TRUE]
                               ELSE timers[i]
        /\ lastOp' = "startOne" =>
              \E i \in 1..Len(timers) :
                  /\ timers[i].remainingMs > 0
                  /\ ~timers[i].isRunning
                  /\ timers' = [timers EXCEPT ![i].isRunning = TRUE]]_vars

(* after start all: a timer at zero still paused next to a running one     *)
C7_Witness ==
    /\ lastOp = "startAll"
    /\ \E i, j \in 1..Len(timers) :
          /\ timers[i].remainingMs = 0 /\ ~timers[i].isRunning
          /\ timers[j].remainingMs > 0 /\ timers[j].isRunning

(* C8: a tick leaves every field of a timer that is not running unchanged. *)
C8_TickFrame ==
    [][(OpStep /\ lastOp' = "tick") =>
          /\ SameLength
          /\ \A i \in 1..Len(timers) :
                ~timers[i].isRunning => timers'[i] = timers[i]]_vars

(* after a tick with time elapsed: a paused timer part-way down (a running *)
(* timer above zero stays running, so this one was paused before the tick) *)
C8_Witness ==
    /\ lastOp = "tick"
    /\ \E i, j \in 1..Len(timers) :
          /\ ~timers[i].isRunning
          /\ timers[i].remainingMs > 0
          /\ timers[i].remainingMs < timers[i].durationMs
          /\ timers[j].remainingMs < timers[i].remainingMs

(* C9: a tick at instant n with baseline b sets remainingMs of a running   *)
(* timer with r > 0 to max(0, r - (n - b)), keeps it running iff the       *)
(* result is above zero, and moves the baseline to n on every tick.        *)
C9_TickSubtractsElapsed ==
    [][(OpStep /\ lastOp' = "tick") =>
          /\ lastTickRef' = now
          /\ SameLength
          /\ \A i \in 1..Len(timers) :
                (timers[i].isRunning /\ timers[i].remainingMs > 0) =>
                    /\ timers'[i].remainingMs =
                           Max(0, timers[i].remainingMs - (now - lastTickRef))
                    /\ timers'[i].isRunning = (timers'[i].remainingMs > 0)]_vars

(* after a tick later than instant 0: the baseline is the instant of the   *)
(* tick, one timer ran out and another is still running part-way down      *)
C9_Witness ==
    /\ lastOp = "tick"
    /\ now > 0
    /\ lastTickRef = now
    /\ \E i, j \in 1..Len(timers) :
          /\ timers[i].remainingMs = 0 /\ ~timers[i].isRunning
          /\ timers[j].isRunning
          /\ timers[j].remainingMs < timers[j].durationMs

(* C10: the remainingMs of a timer that is running never increases.        *)
C10_RunningNeverIncreases ==
    [][\A i \in 1..Len(timers) : \A j \in 1..Len(timers') :
          (timers[i].isRunning /\ timers'[j].id = timers[i].id /\ timers'[j].isRunning)
              => timers'[j].remainingMs <= timers[i].remainingMs]_vars

(* C11: pause all, pause selected and the pause button of a card set       *)
(* isRunning to false for exactly the timers they target; remainingMs of   *)
(* every timer and the run state of the other timers stay as they were.    *)
C11_PauseFrame ==
    [][OpStep =>
        /\ lastOp' = "pauseAll" =>
              /\ SameLength
              /\ \A i \in 1..Len(timers) :
                    timers'[i] = [timers[i] EXCEPT !.isRunning = FALSE]
        /\ lastOp' = "pauseSelected" =>
              /\ SameLength
              /\ \A i \in 1..Len(timers) :
                    timers'[i] = IF timers[i].isSelected
                                 THEN [timers[i] EXCEPT !.isRunning = FALSE]
                                 ELSE timers[i]
        /\ lastOp' = "pauseOne" =>
              \E i \in 1..Len(timers) :
                  /\ timers[i].isRunning
                  /\ timers' = [timers EXCEPT ![i].isRunning = FALSE]]_vars

(* after pause selected: the selected timer is paused part-way down, an    *)
(* unselected one is still running                                         *)
C11_Witness ==
    /\ lastOp = "pauseSelected"
    /\ \E i, j \in 1..Len(timers) :
          /\ timers[i].isSelected /\ ~timers[i].isRunning
          /\ timers[i].remainingMs > 0
          /\ timers[i].remainingMs < timers[i].durationMs
          /\ ~timers[j].isSelected /\ timers[j].isRunning

(* C12: reset selected sets remainingMs = durationMs and isRunning = false *)
(* for exactly the selected timers and leaves the others unchanged; a      *)
(* timer reset from zero can be started again, with its full duration.     *)
C12_ResetReopens ==
    [][OpStep =>
        /\ lastOp' = "resetSelected" =>
              /\ SameLength
              /\ \A i \in 1..Len(timers) :
                    timers'[i] = IF timers[i].isSelected
                                 THEN [timers[i] EXCEPT !.remainingMs = timers[i].durationMs,
                                                        !.isRunning = FALSE]
                                 ELSE timers[i]
              /\ \A i \in 1..Len(timers) :
                    timers[i].isSelected => timers'[i].remainingMs > 0
        /\ (lastOp = "resetSelected" /\ lastOp' \in {"startAll", "startSelected"}) =>
              \A i \in 1..Len(timers) :
                  timers[i].isSelected =>
                      /\ timers'[i].isRunning
                      /\ timers'[i].remainingMs = timers[i].durationMs
        /\ (lastOp \in {"startAll", "startSelected"} /\ lastOp' = "tick") =>
              \A i \in 1..Len(timers) :
                  (timers[i].isRunning /\ timers[i].remainingMs = timers[i].durationMs) =>
                      timers'[i].remainingMs = Max(0, timers[i].durationMs - (now - lastTickRef))]_vars

(* after reset selected at the last instant: the selected timer has its    *)
(* full minute again and is paused, an unselected timer stays at zero      *)
C12_Witness ==
    /\ lastOp = "resetSelected"
    /\ now = 60000
    /\ \E i, j \in 1..Len(timers) :
          /\ timers[i].isSelected /\ ~timers[i].isRunning
          /\ timers[i].remainingMs = timers[i].durationMs
          /\ ~timers[j].isSelected /\ timers[j].remainingMs = 0

IsBlank(name) == \A k \in 1..Len(name) : name[k] = " "

(* C14: add entry with an empty or whitespace-only name changes neither    *)
(* the timer collection nor the stored snapshot.                           *)
C14_BlankNameIsNoOp ==
    [][(OpStep /\ lastOp' = "add" /\ IsBlank(lastArg'[1]))
          => /\ timers' = timers
             /\ storage' = storage]_vars

(* after add entry with a name of one space, with a timer in the           *)
(* collection and in the snapshot                                          *)
C14_Witness ==
    /\ lastOp = "add"
    /\ lastArg[1] = <<" ">>
    /\ hydrated
    /\ Len(timers) = 1
    /\ Len(storage.timers) = 1

(* C15: add entry with a name that is not blank appends one timer with     *)
(* durationMs = max(1, minutes) * 60000, remainingMs = durationMs, not     *)
(* running and not selected, and leaves the timers before it as they were. *)
C15_AddAppends ==
    [][(OpStep /\ lastOp' = "add" /\ ~IsBlank(lastArg'[1]))
          => /\ Len(timers') = Len(timers) + 1
             /\ SubSeq(timers', 1, Len(timers)) = timers
             /\ LET added == timers'[Len(timers')]
                    minutes == lastArg'[2]
                IN  /\ added.durationMs = (IF minutes >= 1 THEN minutes ELSE 1) * 60000
                    /\ added.durationMs >= 60000
                    /\ added.remainingMs = added.durationMs
                    /\ ~added.isRunning
                    /\ ~added.isSelected
                    /\ \A i \in 1..Len(timers) : timers[i].id # added.id]_vars

(* after add entry with 0 minutes typed: the new timer is second, behind a *)
(* running one, and has one minute                                         *)
C15_Witness ==
    /\ lastOp = "add"
    /\ lastArg = << <<" ", "a", " ">>, 0 >>
    /\ Len(timers) = 2
    /\ timers[1].isRunning
    /\ timers[2].durationMs = 60000

(* C16: a read failure at load (no item, or an item that is not JSON) is   *)
(* not fatal: the load effect completes, the collection starts empty, and  *)
(* the component is as usable as after a successful load, which includes   *)
(* that the persist effect is enabled for the user actions and ticks that  *)
(* follow.                                                                 *)
C16_ReadFailureLeavesStoreUsable ==
    [][(pc = "mount" /\ pc' = "ready" /\ storage.raw \in {"null", "corrupt"})
         => (timers' = <<>> /\ hydrated')]_vars

(* C18: hydration gate. Storage is written only by a step that ends with   *)
(* hydrated set and the load effect done, and what is written is the       *)
(* collection of that moment: nothing is written before the load effect    *)
(* has read the stored item. The load of a readable snapshot writes the    *)
(* reconciled timers of that snapshot, as many as were stored, so the      *)
(* snapshot is not replaced by the initial empty collection.               *)
C18_HydrationGate ==
    [][/\ storage' # storage
           => /\ hydrated'
              /\ pc' = "ready"
              /\ storage' = Stringify(Payload(timers', now'))
       /\ (pc = "mount" /\ pc' = "ready" /\ storage.raw = "json")
           => /\ storage' = Stringify(Payload(Adjusted(Parse(storage), now), now))
              /\ Len(storage'.timers) = Len(storage.timers)]_vars

(* a stored snapshot of two timers has been loaded at a later instant and  *)
(* written back with its running timer reconciled to zero                  *)
C18_Witness ==
    /\ lastOp = "load"
    /\ hydrated
    /\ storage.raw = "json"
    /\ Len(storage.timers) = 2
    /\ storage.lastUpdatedMs = now
    /\ now > 0
    /\ storage.timers[1][4] = 0
    /\ storage.timers[1][5] = FALSE

(* C19: no running time is lost between ticks. The instant at which a      *)
(* running timer will reach zero is remainingMs + lastTickRef; for a timer *)
(* that is running and above zero before and after a step of the mounted   *)
(* component, that instant is the same before and after, so that from one  *)
(* tick to the next its remainingMs decreases by exactly the time between  *)
(* them, whatever the user did to other timers in between.                 *)
C19_NoRunningTimeLost ==
    [][(pc = "ready" /\ pc' = "ready")
         => \A i \in 1..Len(timers), j \in 1..Len(timers') :
              (/\ timers'[j].id = timers[i].id
               /\ timers[i].isRunning /\ timers[i].remainingMs > 0
               /\ timers'[j].isRunning /\ timers'[j].remainingMs > 0)
              => timers'[j].remainingMs + lastTickRef'
                   = timers[i].remainingMs + lastTickRef]_vars

(* C20: a reload is consistent with uninterrupted running. Whenever the    *)
(* mounted component has persistence enabled, loading the stored snapshot  *)
(* at any instant n from now on gives every timer that is running and      *)
(* above zero the remainingMs that the first tick at n would have given it *)
(* without the reload: the stored remainingMs is the remaining time as of  *)
(* the stored lastUpdatedMs.                                               *)
C20_ReloadMatchesRunning ==
    (pc = "ready" /\ hydrated /\ storage.raw = "json"
       /\ Len(storage.timers) = Len(timers))
      => \A n \in Instants :
           n >= now
             => \A i \in 1..Len(timers) :
                  (timers[i].isRunning /\ timers[i].remainingMs > 0)
                    => Adjusted(Parse(storage), n)[i].remainingMs
                         = TickTimer(timers[i], n - lastTickRef).remainingMs

(* C17: a failed write to storage is ignored. The step in which setItem    *)
(* throws leaves the stored item as it was and the component mounted and   *)
(* hydrated, and the handler's result stands in memory: the collection and *)
(* the tick baseline are what the handler computes when the write          *)
(* succeeds. Nothing is retried: a step of the clock or of the quota       *)
(* changes neither storage nor memory. Persistence is not disabled: every  *)
(* later step that sets the collection attempts a write again, which       *)
(* fails while storage is full and otherwise stores the whole collection.  *)
C17_WriteFailureIsIgnored ==
    [][/\ failedWrites' > failedWrites
           => /\ storage' = storage
              /\ hydrated'
              /\ pc' = "ready"
              /\ lastOp' = "tick"
                   => /\ timers' = MapSeq(timers, LAMBDA timer :
                                             TickTimer(timer, now - lastTickRef))
                      /\ lastTickRef' = now
              /\ lastOp' = "startAll"
                   => /\ timers' = MapSeq(timers, StartAllTimer)
                      /\ lastTickRef' = now
              /\ lastOp' = "pauseAll"
                   => /\ timers' = MapSeq(timers, PauseAllTimer)
                      /\ lastTickRef' = lastTickRef
              /\ lastOp' = "removeTimer"
                   => /\ timers' = RemoveById(timers, lastArg'[1])
                      /\ lastTickRef' = lastTickRef
              /\ lastOp' = "add"
                   => /\ timers' = Append(timers,
                                          NewTimer(RandomUUID(timers),
                                                   Trim(lastArg'[1]), lastArg'[2]))
                      /\ lastTickRef' = lastTickRef
              /\ lastOp' = "load"
                   => IF storage.raw = "json"
                      THEN /\ timers' = Adjusted(Parse(storage), now)
                           /\ lastTickRef' = now
                      ELSE /\ timers' = timers
                           /\ lastTickRef' = lastTickRef
       /\ ~OpStep
           => UNCHANGED <<storage, timers, lastTickRef, hydrated, failedWrites>>
       /\ (OpStep /\ hydrated /\ pc = "ready" /\ pc' = "ready") => hydrated'
       /\ (OpStep /\ hydrated' /\ pc' = "ready"
              /\ ~(lastOp' = "add" /\ IsBlank(lastArg'[1])))
           => IF storageFull
              THEN failedWrites' = failedWrites + 1 /\ storage' = storage
              ELSE storage' = Stringify(Payload(timers', now))]_vars

(* after a failed write, with space freed again, an added timer has been   *)
(* written together with the rest of the collection                        *)
C17_Witness ==
    /\ failedWrites > 0
    /\ ~storageFull
    /\ pc = "ready"
    /\ hydrated
    /\ lastOp = "add"
    /\ ~IsBlank(lastArg[1])
    /\ Len(timers) = 2
    /\ storage = Stringify(Payload(timers, now))

IsRunning(id) ==
    \E i \in 1..Len(timers) : timers[i].id = id /\ timers[i].isRunning

(* C21: liveness. While time passes and ticks keep firing with the clock   *)
(* read later than the baseline, every timer that is running eventually is *)
(* not running: it reaches zero at a tick, or it is paused, reset or       *)
(* removed. No timer stays running forever.                                *)
C21_RunningEventuallyStops ==
    \A id \in IdSource : IsRunning(id) ~> ~IsRunning(id)

(* a tick at the last instant, after the start all button had moved the    *)
(* baseline there, has brought a running timer to zero and stopped it      *)
C21_Witness ==
    /\ lastOp = "tick"
    /\ pc = "ready"
    /\ \A n \in Instants : n <= now
    /\ lastTickRef = now
    /\ Len(timers) = 2
    /\ timers[1].remainingMs = 0 /\ ~timers[1].isRunning
    /\ timers[2].remainingMs = 0 /\ ~timers[2].isRunning
    /\ storage.raw = "json"
    /\ storage.lastUpdatedMs = now

====
